---- MODULE Spec2Model ----
(***************************************************************************)
(* A model of cluster_synonymy_scores.py: the batch driver that reads one  *)
(* scores file and one labels file per label set, turns the similarity     *)
(* scores into distances, builds the average-linkage merge tree, cuts it   *)
(* at the dendrogram cutoff, and writes a statistics report and an image   *)
(* under a Pass or a Fail directory.                                       *)
(*                                                                         *)
(* Numbers.  A score is an integer number of tenths.  A normalized score   *)
(* and a leaf distance are integers in units of 10^-6 (the code rounds to  *)
(* 6 decimals), or not-a-number.  A merge distance is the exact rational   *)
(* [num, den] in the same unit: the mean of the cross leaf distances.      *)
(* Arithmetic is exact: binary floating point error is not modelled.       *)
(***************************************************************************)
EXTENDS Integers, Sequences, FiniteSets, TLC

\* ------------------------------------------------------------------ bounds
MaxLabels == 4        \* labels in one labels file: 0..MaxLabels
MaxScores == 6        \* scores in one scores file: 0..MaxScores
MaxFiles == 2         \* regular, non-hidden files in one input directory

\* The score values a scores file may hold, in tenths (0.1, 0.9, 1.0).
ScoreValues == {1, 9, 10}

\* -------------------------------------------------------- program constants
Scale == 1000000              \* round(decimals=6): one unit is 10^-6
DefaultCutoff == 727500       \* --dendro_cutoff default 0.7275, in units
PassPct == 75                 \* classify_pass_fail threshold
RoutePct == 66                \* make_output_filenames threshold

\* The cutoffs a run may be started with: the default and one other value.
CutoffValues == {DefaultCutoff, Scale \div 2}

\* --------------------------------------------------------------- helpers
Range(s) == {s[k] : k \in DOMAIN s}

MinOf(S) == CHOOSE x \in S : \A y \in S : x <= y

MaxOf(S) == CHOOSE x \in S : \A y \in S : y <= x

\* A floating point value: a number of units, or not-a-number.
Num(v) == [nan |-> FALSE, v |-> v]

NaN == [nan |-> TRUE, v |-> 0]

\* numpy's round: to the nearest unit, a tie going to the even neighbour.
\* The value rounded is num/den (num >= 0, den > 0).
RoundHalfEven(num, den) ==
    LET q == num \div den
        r == num % den
    IN  IF 2 * r < den THEN q
        ELSE IF 2 * r > den THEN q + 1
        ELSE IF q % 2 = 0 THEN q ELSE q + 1

\* normalize_array without the subtraction of the minimum.
normalize_array_nomin(scores_array) ==
    LET lo == MinOf(Range(scores_array))
        ptp == MaxOf(Range(scores_array)) - lo
    IN  [k \in DOMAIN scores_array |->
            IF ptp = 0 THEN NaN
            ELSE Num(RoundHalfEven(scores_array[k] * Scale, ptp))]

\* (scores_array - min) / ptp, rounded to 6 decimals.  With ptp = 0 every
\* element is 0/0, which numpy evaluates to not-a-number (with a warning).
normalize_array(scores_array) ==
    LET lo == MinOf(Range(scores_array))
        ptp == MaxOf(Range(scores_array)) - lo
    IN  [k \in DOMAIN scores_array |->
            IF ptp = 0 THEN NaN
            ELSE Num(RoundHalfEven((scores_array[k] - lo) * Scale, ptp))]

\* distances_array = 1 - scores_norm
OneMinus(x) == IF x.nan THEN NaN ELSE Num(Scale - x.v)

\* int(len * (len - 1) / 2)
check_expected_distances_count(labels_array) ==
    (Len(labels_array) * (Len(labels_array) - 1)) \div 2

\* ------------------------------------------------- rationals (merge distances)
Rat(num, den) == [num |-> num, den |-> den]

RatLess(a, b) == a.num * b.den < b.num * a.den

RatLeq(a, b) == a.num * b.den <= b.num * a.den

RatEq(a, b) == a.num * b.den = b.num * a.den

\* ------------------------------------------- sch.linkage(y, 'average')
\* The number of observations n with n*(n-1)/2 = Len(y); 0 when there is none
\* (scipy raises ValueError for an empty or ill-sized condensed matrix).
NumObs(y) ==
    LET fit == {d \in 2..(Len(y) + 1) : d * (d - 1) = 2 * Len(y)}
    IN  IF fit = {} THEN 0 ELSE CHOOSE d \in fit : TRUE

\* sch.linkage raises ValueError: ill-sized input, or a value that is not finite.
LinkageRaises(y) == NumObs(y) = 0 \/ \E k \in DOMAIN y : y[k].nan

\* The unordered pair of two cluster indices, as the key of the distance table.
Pair(i, j) == IF i < j THEN <<i, j>> ELSE <<j, i>>

\* Position (1-based) in the condensed vector of the pair i < j of 0..n-1.
CondensedIndex(n, i, j) == n * i - (i * (i + 1)) \div 2 + (j - i - 1) + 1

\* The state of the nearest-neighbour chain: S[p] is the sum of the leaf
\* distances over the cross pairs of the two clusters of p, so that the average
\* linkage distance of p is S[p] / (size[i] * size[j]); size[i] = 0 marks a
\* cluster index that was merged away; chain is the neighbour chain; Z the
\* merges recorded so far.
ChainInit(y, n) ==
    [S |-> [p \in {<<i, j>> \in (0..(n - 1)) \X (0..(n - 1)) : i < j} |->
                y[CondensedIndex(n, p[1], p[2])].v],
     size |-> [i \in 0..(n - 1) |-> 1],
     chain |-> <<>>,
     Z |-> <<>>]

\* The current distance of clusters i and j: the mean over their cross pairs.
ClusterDist(st, i, j) == Rat(st.S[Pair(i, j)], st.size[i] * st.size[j])

\* The neighbour the chain moves to from x: the previous chain element prev
\* (-1 when there is none) unless some live cluster is strictly nearer, and
\* then the lowest-numbered cluster at the smallest distance.
NearestTo(st, x, prev) ==
    LET live == {i \in DOMAIN st.size : st.size[i] > 0 /\ i # x}
        best == {i \in live : \A j \in live :
                    RatLeq(ClusterDist(st, x, i), ClusterDist(st, x, j))}
    IN  IF prev >= 0 /\ \A i \in live :
                ~RatLess(ClusterDist(st, x, i), ClusterDist(st, x, prev))
        THEN prev
        ELSE MinOf(best)

\* Grow the chain until its last two elements are mutual nearest neighbours.
RECURSIVE GrowChain(_, _)
GrowChain(st, chain) ==
    LET x == chain[Len(chain)]
        prev == IF Len(chain) > 1 THEN chain[Len(chain) - 1] ELSE -1
        y == NearestTo(st, x, prev)
    IN  IF Len(chain) > 1 /\ y = prev THEN chain
        ELSE GrowChain(st, Append(chain, y))

\* The update with the term of the kept cluster y left out.
AverageUpdate_drop(S, i, x, y) == S[Pair(i, x)]

\* The average-linkage update of the distance from cluster i to the merged
\* cluster: (nx * d(i,x) + ny * d(i,y)) / (nx + ny), kept as a sum of leaf
\* distances.
AverageUpdate(S, i, x, y) == S[Pair(i, x)] + S[Pair(i, y)]

\* One merge of the nearest-neighbour chain algorithm.
MergeStep(st) ==
    LET start == IF st.chain = <<>>
                 THEN <<MinOf({i \in DOMAIN st.size : st.size[i] > 0})>>
                 ELSE st.chain
        chain == GrowChain(st, start)
        c1 == chain[Len(chain)]
        c2 == chain[Len(chain) - 1]
        x == IF c1 < c2 THEN c1 ELSE c2
        y == IF c1 < c2 THEN c2 ELSE c1
        nx == st.size[x]
        ny == st.size[y]
        size2 == [st.size EXCEPT ![x] = 0, ![y] = nx + ny]
    IN  [S |-> [p \in DOMAIN st.S |->
                  IF p[1] # x /\ p[2] # x /\ (p[1] = y \/ p[2] = y)
                     /\ size2[p[1]] > 0 /\ size2[p[2]] > 0
                  THEN AverageUpdate(st.S, IF p[1] = y THEN p[2] ELSE p[1], x, y)
                  ELSE st.S[p]],
         size |-> size2,
         chain |-> SubSeq(chain, 1, Len(chain) - 2),
         Z |-> Append(st.Z, [a |-> x, b |-> y,
                             dist |-> ClusterDist(st, x, y),
                             count |-> nx + ny])]

\* The merge loop stopping one merge early.
RECURSIVE NNChain_short(_, _)
NNChain_short(st, merges) ==
    IF Len(st.Z) >= merges - 1 THEN st.Z ELSE NNChain_short(MergeStep(st), merges)

\* for k in range(n - 1): one merge each.
RECURSIVE NNChain(_, _)
NNChain(st, merges) ==
    IF Len(st.Z) >= merges THEN st.Z ELSE NNChain(MergeStep(st), merges)

\* np.argsort(Z[:, 2], kind='mergesort'): a stable sort by merge distance.
RECURSIVE InsertByDist(_, _)
InsertByDist(sorted, r) ==
    IF sorted = <<>> THEN <<r>>
    ELSE IF RatLess(r.dist, sorted[Len(sorted)].dist)
         THEN Append(InsertByDist(SubSeq(sorted, 1, Len(sorted) - 1), r),
                     sorted[Len(sorted)])
         ELSE Append(sorted, r)

RECURSIVE SortByDist(_)
SortByDist(Z) ==
    IF Z = <<>> THEN <<>>
    ELSE InsertByDist(SortByDist(SubSeq(Z, 1, Len(Z) - 1)), Z[Len(Z)])

\* LinkageUnionFind.find: the root of x under the parent table (-1: a root).
RECURSIVE Find(_, _)
Find(parent, x) == IF parent[x] = -1 THEN x ELSE Find(parent, parent[x])

\* label(Z, n): rename the two clusters of every merge to the identifiers of
\* the clusters they are part of; the k-th merge (k = 0..) creates n + k.
RECURSIVE Label(_, _, _, _, _)
Label(Z, n, k, parent, usize) ==
    IF k > Len(Z) THEN <<>>
    ELSE LET xr == Find(parent, Z[k].a)
             yr == Find(parent, Z[k].b)
             new == n + k - 1
             total == usize[xr] + usize[yr]
         IN  <<[a |-> IF xr < yr THEN xr ELSE yr,
                b |-> IF xr < yr THEN yr ELSE xr,
                dist |-> Z[k].dist,
                count |-> total]>>
             \o Label(Z, n, k + 1,
                      [parent EXCEPT ![xr] = new, ![yr] = new],
                      [usize EXCEPT ![new] = total])

\* The merge tree scipy returns for the condensed distance vector y.
Linkage(y) ==
    LET n == NumObs(y)
        Z == SortByDist(NNChain(ChainInit(y, n), n - 1))
    IN  Label(Z, n, 1,
              [x \in 0..(2 * n - 2) |-> -1],
              [x \in 0..(2 * n - 2) |-> IF x < n THEN 1 ELSE 0])

\* Fix distances that have become less than 0.
ClampDist(d) == IF d.num < 0 THEN Rat(0, d.den) ELSE d

build_linkage_matrix(distances_array) ==
    LET linkage_matrix == Linkage(distances_array)
    IN  [k \in DOMAIN linkage_matrix |->
            [linkage_matrix[k] EXCEPT !.dist = ClampDist(@)]]

\* --------------------------- sch.fcluster(Z, t, criterion='distance')
\* The largest merge distance in the subtree of the k-th merge (1-based).
RECURSIVE MaxDist(_, _, _)
MaxDist(Z, n, k) ==
    LET lc == Z[k].a
        rc == Z[k].b
        m1 == IF lc >= n /\ RatLess(Z[k].dist, MaxDist(Z, n, lc - n + 1))
              THEN MaxDist(Z, n, lc - n + 1) ELSE Z[k].dist
    IN  IF rc >= n /\ RatLess(m1, MaxDist(Z, n, rc - n + 1))
        THEN MaxDist(Z, n, rc - n + 1) ELSE m1

\* The walk with the cutoff excluded: a subtree leads a flat cluster only when
\* it stays strictly below the cutoff.
RECURSIVE ClusterMonocrit_strict(_, _, _, _, _, _)
ClusterMonocrit_strict(Z, n, cutoff, node, led, ct) ==
    LET k == node - n + 1
        lc == Z[k].a
        rc == Z[k].b
        leads == ~led /\ RatLess(MaxDist(Z, n, k), Rat(cutoff, 1))
        in == led \/ leads
        c0 == IF leads THEN [ct EXCEPT !.n_cluster = @ + 1] ELSE ct
        c1 == IF lc >= n THEN ClusterMonocrit_strict(Z, n, cutoff, lc, in, c0) ELSE c0
        c2 == IF rc >= n THEN ClusterMonocrit_strict(Z, n, cutoff, rc, in, c1) ELSE c1
        n3 == IF lc < n /\ ~in THEN c2.n_cluster + 1 ELSE c2.n_cluster
        T3 == IF lc < n THEN (lc :> n3) @@ c2.T ELSE c2.T
        n4 == IF rc < n /\ ~in THEN n3 + 1 ELSE n3
        T4 == IF rc < n THEN (rc :> n4) @@ T3 ELSE T3
    IN  [T |-> T4, n_cluster |-> n4]

\* The walk of the tree from cluster identifier node: ct.T maps the leaves
\* numbered so far to their flat cluster, ct.n_cluster counts the flat
\* clusters; led says that an ancestor already leads a flat cluster.  A node
\* whose subtree stays within the cutoff (boundary included) leads one flat
\* cluster; a leaf outside every such subtree is a cluster of its own.
RECURSIVE ClusterMonocrit(_, _, _, _, _, _)
ClusterMonocrit(Z, n, cutoff, node, led, ct) ==
    LET k == node - n + 1
        lc == Z[k].a
        rc == Z[k].b
        leads == ~led /\ RatLeq(MaxDist(Z, n, k), Rat(cutoff, 1))
        in == led \/ leads
        c0 == IF leads THEN [ct EXCEPT !.n_cluster = @ + 1] ELSE ct
        c1 == IF lc >= n THEN ClusterMonocrit(Z, n, cutoff, lc, in, c0) ELSE c0
        c2 == IF rc >= n THEN ClusterMonocrit(Z, n, cutoff, rc, in, c1) ELSE c1
        n3 == IF lc < n /\ ~in THEN c2.n_cluster + 1 ELSE c2.n_cluster
        T3 == IF lc < n THEN (lc :> n3) @@ c2.T ELSE c2.T
        n4 == IF rc < n /\ ~in THEN n3 + 1 ELSE n3
        T4 == IF rc < n THEN (rc :> n4) @@ T3 ELSE T3
    IN  [T |-> T4, n_cluster |-> n4]

\* The flat cluster of every observation 0..n-1.
fcluster(Z, cutoff) ==
    LET n == Len(Z) + 1
    IN  ClusterMonocrit(Z, n, cutoff, 2 * n - 2, FALSE,
                        [T |-> <<>>, n_cluster |-> 0]).T

\* calculate_cluster_stats: the member count of every flat cluster and the
\* percentage of the membership in the largest one, 100 * (c_max / c_sum),
\* kept as the exact fraction [num, den].  The cophenetic coefficient is a
\* floating point correlation that decides nothing here and is left out.
RECURSIVE SumOf(_, _)
SumOf(f, S) ==
    IF S = {} THEN 0
    ELSE LET x == CHOOSE x \in S : TRUE IN f[x] + SumOf(f, S \ {x})

\* The percentage taken over the number of merges instead of the number of
\* cluster members.
calculate_cluster_stats_merges(linkage_matrix, cutoff) ==
    LET clusters == fcluster(linkage_matrix, cutoff)
        cluster_enumeration == Range(clusters)
        cluster_membership ==
            [value \in cluster_enumeration |->
                Cardinality({o \in DOMAIN clusters : clusters[o] = value})]
        c_max == MaxOf(Range(cluster_membership))
    IN  [clusters |-> clusters,
         cluster_membership |-> cluster_membership,
         pct |-> Rat(100 * c_max, Len(linkage_matrix))]

calculate_cluster_stats(linkage_matrix, cutoff) ==
    LET clusters == fcluster(linkage_matrix, cutoff)
        cluster_enumeration == Range(clusters)
        cluster_membership ==
            [value \in cluster_enumeration |->
                Cardinality({o \in DOMAIN clusters : clusters[o] = value})]
        c_max == MaxOf(Range(cluster_membership))
        c_sum == SumOf(cluster_membership, cluster_enumeration)
    IN  [clusters |-> clusters,
         cluster_membership |-> cluster_membership,
         pct |-> Rat(100 * c_max, c_sum)]

\* pct >= threshold, for a whole-number threshold.
PctAtLeast(pct, threshold) == pct.num >= threshold * pct.den

\* The verdict with a strict comparison.
classify_pass_fail_strict(pct) ==
    IF pct.num > PassPct * pct.den THEN "pass" ELSE "fail"

classify_pass_fail(pct) == IF PctAtLeast(pct, PassPct) THEN "pass" ELSE "fail"

\* The report: the membership table, the largest cluster's sentence and the
\* verdict line 'Cluster coherence test: ...'.
format_cluster_stats(cluster_membership, pct) ==
    LET most == MaxOf(Range(cluster_membership))
        first == MinOf({c \in DOMAIN cluster_membership : cluster_membership[c] = most})
    IN  [table |-> cluster_membership,
         largest |-> first,
         members |-> most,
         pct |-> pct,
         pass_fail |-> classify_pass_fail(pct)]

\* The routing following the verdict's threshold.
make_output_filenames_by_verdict(pct, dendro_name) ==
    LET dir == IF PctAtLeast(pct, PassPct) THEN "Pass" ELSE "Fail"
    IN  [dendro_file |-> [tree |-> "Dendrograms", dir |-> dir, name |-> dendro_name],
         stats_file |-> [tree |-> "Statistics", dir |-> dir, name |-> dendro_name]]

\* The routing with the two branches exchanged.
make_output_filenames_swapped(pct, dendro_name) ==
    LET dir == IF PctAtLeast(pct, RoutePct) THEN "Fail" ELSE "Pass"
    IN  [dendro_file |-> [tree |-> "Dendrograms", dir |-> dir, name |-> dendro_name],
         stats_file |-> [tree |-> "Statistics", dir |-> dir, name |-> dendro_name]]

\* The two output paths: the Pass directories when pct >= 66, else the Fail ones.
make_output_filenames(pct, dendro_name) ==
    IF PctAtLeast(pct, RoutePct)
    THEN [dendro_file |-> [tree |-> "Dendrograms", dir |-> "Pass", name |-> dendro_name],
          stats_file |-> [tree |-> "Statistics", dir |-> "Pass", name |-> dendro_name]]
    ELSE [dendro_file |-> [tree |-> "Dendrograms", dir |-> "Fail", name |-> dendro_name],
          stats_file |-> [tree |-> "Statistics", dir |-> "Fail", name |-> dendro_name]]

\* ------------------------------------------------------------ file names
\* A file name is a sequence of characters; Alphabet lists the characters in
\* their sorting order.
Alphabet == <<".", "a", "b", "c", "d", "l", "s">>

Ord(c) == CHOOSE k \in DOMAIN Alphabet : Alphabet[k] = c

\* String comparison: a < b.
RECURSIVE NameLess(_, _)
NameLess(a, b) ==
    IF b = <<>> THEN FALSE
    ELSE IF a = <<>> THEN TRUE
    ELSE IF Ord(Head(a)) # Ord(Head(b)) THEN Ord(Head(a)) < Ord(Head(b))
    ELSE NameLess(Tail(a), Tail(b))

\* sorted(names)
RECURSIVE SortedNames(_)
SortedNames(names) ==
    IF names = {} THEN <<>>
    ELSE LET first == CHOOSE x \in names : \A y \in names \ {x} : NameLess(x, y)
         IN  <<first>> \o SortedNames(names \ {first})

\* name.split('.')[0]
RECURSIVE Prefix(_)
Prefix(name) ==
    IF name = <<>> \/ Head(name) = "." THEN <<>>
    ELSE <<Head(name)>> \o Prefix(Tail(name))

\* The entries an input directory may hold: one data file per prefix, a hidden
\* file and a subdirectory.
DirEntries(ext) ==
    {[name |-> <<Alphabet[k + 1], ".", ext>>, isfile |-> TRUE] : k \in 1..MaxFiles}
    \cup {[name |-> <<".", "d">>, isfile |-> TRUE], [name |-> <<"d">>, isfile |-> FALSE]}

\* The loop of make_input_lists over one directory: the regular files whose
\* name does not start with a dot, in sorted order.
ListFiles(entries) ==
    SortedNames({e.name : e \in {e \in entries : e.isfile /\ Head(e.name) # "."}})

\* ------------------------------------------------------------------ state
VARIABLES
    pc,               \* the driver's position
    error,            \* the exception that ended the run, "" when none
    dendro_cutoff,    \* args.dendro_cutoff, in units
    scores_files,     \* make_input_lists' two results
    labels_files,
    i,                \* the loop index of __main__ (1-based)
    scores_csv,       \* the content of the i-th scores file on disk
    labels_csv,       \* the content of the i-th labels file on disk
    distances_array,  \* the loop body's values
    labels_array,
    linkage_matrix,
    cluster_stats,    \* clusters, cluster_membership, pct
    stats_printout,
    out_files,        \* dendro_file, stats_file
    written,          \* the files written under clustering_dir, with content
    printed           \* the console messages, with the loop index

body == <<scores_csv, labels_csv, distances_array, labels_array, linkage_matrix,
          cluster_stats, stats_printout, out_files>>

vars == <<pc, error, dendro_cutoff, scores_files, labels_files, i, body, written, printed>>

NoStats == [clusters |-> <<>>, cluster_membership |-> <<>>, pct |-> Rat(0, 1)]

NoPrintout == [table |-> <<>>, largest |-> 0, members |-> 0, pct |-> Rat(0, 1),
               pass_fail |-> ""]

NoPath == [tree |-> "", dir |-> "", name |-> <<>>]

NoFiles == [dendro_file |-> NoPath, stats_file |-> NoPath]

\* The loop body's values before its first statement.
FreshBody ==
    /\ scores_csv' = <<>>
    /\ labels_csv' = <<>>
    /\ distances_array' = <<>>
    /\ labels_array' = <<>>
    /\ linkage_matrix' = <<>>
    /\ cluster_stats' = NoStats
    /\ stats_printout' = NoPrintout
    /\ out_files' = NoFiles

Init ==
    /\ pc = "main"
    /\ error = ""
    /\ dendro_cutoff \in CutoffValues
    /\ scores_files = <<>>
    /\ labels_files = <<>>
    /\ i = 0
    /\ scores_csv = <<>>
    /\ labels_csv = <<>>
    /\ distances_array = <<>>
    /\ labels_array = <<>>
    /\ linkage_matrix = <<>>
    /\ cluster_stats = NoStats
    /\ stats_printout = NoPrintout
    /\ out_files = NoFiles
    /\ written = {}
    /\ printed = {}

\* An exception nobody catches: the interpreter stops with a traceback.
Raise(exc) == pc' = "crashed" /\ error' = exc

\* The end of one pass of the for loop: the next index, or the end of the
\* run.  The body's values are dead from here on (each is assigned again
\* before it is read), so the model forgets them.
NextSet ==
    /\ i' = i + 1
    /\ pc' = IF i + 1 <= Len(scores_files) THEN "make_arrays" ELSE "done"
    /\ FreshBody

\* ---------------------------------------------------------------- actions
\* __main__: make_output_subdirs, then the isdir test of the three arguments.
Main ==
    /\ pc = "main"
    /\ \E isdir \in BOOLEAN :
         IF isdir
         THEN pc' = "make_input_lists" /\ UNCHANGED printed
         ELSE pc' = "done" /\ printed' = printed \cup {[i |-> 0, msg |-> "usage"]}
    /\ UNCHANGED <<error, dendro_cutoff, scores_files, labels_files, i, body, written>>

\* The exit test without the comparison of the two lengths.
FatalInput_emptyonly(sf, lf) == Len(sf) < 1 \/ Len(lf) < 1

\* sys.exit() for an empty list or two lists of different lengths.
FatalInput(sf, lf) == Len(sf) < 1 \/ Len(lf) < 1 \/ Len(sf) # Len(lf)

make_input_lists ==
    /\ pc = "make_input_lists"
    /\ \E sdir \in SUBSET DirEntries("s"), ldir \in SUBSET DirEntries("l") :
         LET sf == ListFiles(sdir)
             lf == ListFiles(ldir)
         IN  /\ scores_files' = sf
             /\ labels_files' = lf
             /\ IF FatalInput(sf, lf)
                THEN /\ pc' = "exited"
                     /\ printed' = printed \cup {[i |-> 0, msg |-> "quitting"]}
                     /\ UNCHANGED i
                ELSE /\ pc' = "make_arrays"
                     /\ i' = 1
                     /\ UNCHANGED printed
    /\ UNCHANGED <<error, dendro_cutoff, body, written>>

\* The contents a labels file and a scores file may have: any number of
\* labels up to the bound, and for n labels an empty scores file or one whose
\* number of rows is n*(n-1)/2 or one off it.
LabelsContents == {[k \in 1..len |-> k] : len \in 0..MaxLabels}

ScoresLengths(labels) ==
    LET expected == (Len(labels) * (Len(labels) - 1)) \div 2
    IN  {len \in 0..MaxScores : len = 0 \/ (len >= expected - 1 /\ len <= expected + 1)}

ScoresContents(labels) == UNION {[1..len -> ScoreValues] : len \in ScoresLengths(labels)}

\* make_arrays: pandas.read_csv raises EmptyDataError for a file without a
\* row, the scores file being read first.
make_arrays ==
    /\ pc = "make_arrays"
    /\ \E labels \in LabelsContents :
       \E pairs_scores \in ScoresContents(labels) :
         /\ scores_csv' = pairs_scores
         /\ labels_csv' = labels
         /\ IF pairs_scores = <<>> \/ labels = <<>>
            THEN /\ Raise("EmptyDataError")
                 /\ UNCHANGED <<distances_array, labels_array>>
            ELSE /\ distances_array' =
                       [k \in DOMAIN pairs_scores |->
                           OneMinus(normalize_array(pairs_scores)[k])]
                 /\ labels_array' = labels
                 /\ pc' = "check"
                 /\ UNCHANGED error
    /\ UNCHANGED <<dendro_cutoff, scores_files, labels_files, i, linkage_matrix,
                   cluster_stats, stats_printout, out_files, written, printed>>

\* The shape test of the loop: a message and the prompt, or on to clustering.
check_shape ==
    /\ pc = "check"
    /\ IF check_expected_distances_count(labels_array) # Len(distances_array)
       THEN /\ printed' = printed \cup {[i |-> i, msg |-> "distances count"]}
            /\ pc' = "prompt"
       ELSE /\ pc' = "build_linkage"
            /\ UNCHANGED printed
    /\ UNCHANGED <<error, dendro_cutoff, scores_files, labels_files, i, body, written>>

\* input("Press Enter to continue..."), then continue: the line arrives, or
\* standard input is at its end and input() raises EOFError.
press_enter ==
    /\ pc = "prompt"
    /\ \E eof \in BOOLEAN :
         IF eof
         THEN Raise("EOFError") /\ UNCHANGED <<i, body>>
         ELSE NextSet /\ UNCHANGED error
    /\ UNCHANGED <<dendro_cutoff, scores_files, labels_files, written, printed>>

\* build_linkage_matrix and the assertion on its length.
build_linkage ==
    /\ pc = "build_linkage"
    /\ IF LinkageRaises(distances_array)
       THEN Raise("ValueError") /\ UNCHANGED linkage_matrix
       ELSE /\ linkage_matrix' = build_linkage_matrix(distances_array)
            /\ IF Len(linkage_matrix') + 1 = Len(labels_array)
               THEN pc' = "stats" /\ UNCHANGED error
               ELSE Raise("AssertionError")
    /\ UNCHANGED <<dendro_cutoff, scores_files, labels_files, i, scores_csv, labels_csv,
                   distances_array, labels_array, cluster_stats, stats_printout,
                   out_files, written, printed>>

\* calculate_cluster_stats and format_cluster_stats.
cluster_statistics ==
    /\ pc = "stats"
    /\ cluster_stats' = calculate_cluster_stats(linkage_matrix, dendro_cutoff)
    /\ stats_printout' = format_cluster_stats(cluster_stats'.cluster_membership,
                                              cluster_stats'.pct)
    /\ pc' = "name"
    /\ UNCHANGED <<error, dendro_cutoff, scores_files, labels_files, i, scores_csv,
                   labels_csv, distances_array, labels_array, linkage_matrix,
                   out_files, written, printed>>

\* The prefix assertion of extract_dendro_name.
extract_dendro_name(labels_file, scores_file) == Prefix(labels_file) = Prefix(scores_file)

\* extract_dendro_name, the plot, make_output_filenames.
name_outputs ==
    /\ pc = "name"
    /\ IF extract_dendro_name(labels_files[i], scores_files[i])
       THEN /\ out_files' = make_output_filenames(cluster_stats.pct, Prefix(labels_files[i]))
            /\ pc' = "write_stats"
            /\ UNCHANGED error
       ELSE Raise("AssertionError") /\ UNCHANGED out_files
    /\ UNCHANGED <<dendro_cutoff, scores_files, labels_files, i, scores_csv, labels_csv,
                   distances_array, labels_array, linkage_matrix, cluster_stats,
                   stats_printout, written, printed>>

\* A file of the output tree after a write: one content per path.
WriteFile(files, path, content) ==
    {f \in files : f.path # path} \cup {[path |-> path, content |-> content]}

\* What a written file is known by: of a statistics file the verdict line of
\* the printout it holds, of an image that it is a PNG (the plot carries no
\* statistics: the figtext call is commented out).
ReportContent(printout) == printout.pass_fail

ImageContent == "png"

\* open(stats_file, 'w') and write: not guarded, an OSError ends the run.
write_stats ==
    /\ pc = "write_stats"
    /\ \E ok \in BOOLEAN :
         IF ok
         THEN /\ written' = WriteFile(written, out_files.stats_file, ReportContent(stats_printout))
              /\ pc' = "savefig"
              /\ UNCHANGED error
         ELSE Raise("OSError") /\ UNCHANGED written
    /\ UNCHANGED <<dendro_cutoff, scores_files, labels_files, i, body, printed>>

\* plt.savefig under try/except: a failure prints a message and the loop goes on.
savefig ==
    /\ pc = "savefig"
    /\ \E ok \in BOOLEAN :
         IF ok
         THEN /\ written' = WriteFile(written, out_files.dendro_file, ImageContent)
              /\ UNCHANGED printed
         ELSE /\ printed' = printed \cup {[i |-> i, msg |-> "Unable to save"]}
              /\ UNCHANGED written
    /\ NextSet
    /\ UNCHANGED <<error, dendro_cutoff, scores_files, labels_files>>

Next ==
    \/ Main
    \/ make_input_lists
    \/ make_arrays
    \/ check_shape
    \/ press_enter
    \/ build_linkage
    \/ cluster_statistics
    \/ name_outputs
    \/ write_stats
    \/ savefig

Spec == Init /\ [][Next]_vars

\* ------------------------------------------------------------------ claims
\* The statistics files written so far.
StatsWritten == {f \in written : f.path.tree = "Statistics"}

\* The label set [a,b,c] with the scores 0.9, 0.9, 0.1 has been read.
ExampleRead ==
    /\ Len(labels_csv) = 3
    /\ scores_csv = <<9, 9, 1>>

\* C1: the verdict of a report is 'pass' exactly when the largest-cluster
\* percentage is at least 75 and 'fail' otherwise, in the report just formatted
\* and in the statistics file written from it.
C1_VerdictIffAtLeast75 ==
    LET verdict == IF cluster_stats.pct.num >= 75 * cluster_stats.pct.den
                   THEN "pass" ELSE "fail"
    IN  /\ pc \in {"name", "write_stats", "savefig"} =>
             /\ stats_printout.pct = cluster_stats.pct
             /\ stats_printout.pass_fail = verdict
        /\ pc = "savefig" =>
             [path |-> out_files.stats_file, content |-> verdict] \in written
        /\ \A f \in StatsWritten : f.content \in {"pass", "fail"}

\* C1 witness: the report of a label set whose percentage is exactly 75 has
\* been written and says 'pass'.
C1_Witness ==
    /\ pc = "savefig"
    /\ cluster_stats.pct.num = 75 * cluster_stats.pct.den
    /\ [path |-> out_files.stats_file, content |-> "pass"] \in written

C3_Original ==
    (ExampleRead /\ pc = "stats") =>
        /\ distances_array = <<Num(0), Num(0), Num(Scale)>>
        /\ Len(linkage_matrix) = 2
        /\ linkage_matrix[1].a = 0 /\ linkage_matrix[1].b = 1
        /\ linkage_matrix[1].dist.num = 0
        /\ linkage_matrix[2].a = 2 /\ linkage_matrix[2].b = 3
        /\ linkage_matrix[2].dist.num = Scale * linkage_matrix[2].dist.den

\* C3 amended: the same, with c joining the cluster {a,b} at distance 0.5, the
\* mean of d(a,c) = 0 and d(b,c) = 1.
C3_ExampleTree ==
    (ExampleRead /\ pc = "stats") =>
        /\ distances_array = <<Num(0), Num(0), Num(Scale)>>
        /\ Len(linkage_matrix) = 2
        /\ linkage_matrix[1].a = 0 /\ linkage_matrix[1].b = 1
        /\ linkage_matrix[1].dist.num = 0
        /\ linkage_matrix[1].count = 2
        /\ linkage_matrix[2].a = 2 /\ linkage_matrix[2].b = 3
        /\ 2 * linkage_matrix[2].dist.num = Scale * linkage_matrix[2].dist.den
        /\ linkage_matrix[2].count = 3

\* C3 witness: the example's tree has been built.
C3_Witness == ExampleRead /\ pc = "stats" /\ Len(linkage_matrix) = 2

\* C4 as stated: at the default cutoff the example is cut into {a,b} and {c},
\* the percentage is 200/3 (66.7) and both outputs go to Fail.
C4_Original ==
    (ExampleRead /\ dendro_cutoff = DefaultCutoff /\ pc = "write_stats") =>
        /\ cluster_stats.clusters[0] = cluster_stats.clusters[1]
        /\ cluster_stats.clusters[0] # cluster_stats.clusters[2]
        /\ 3 * cluster_stats.pct.num = 200 * cluster_stats.pct.den
        /\ out_files.dendro_file.dir = "Fail"
        /\ out_files.stats_file.dir = "Fail"

\* C4 amended: at the default cutoff the example is one cluster {a,b,c} (c
\* joins at 0.5 <= 0.7275), the percentage is 100, the verdict is 'pass' and
\* both outputs go to Pass.
C4_ExampleOutcome ==
    (ExampleRead /\ dendro_cutoff = DefaultCutoff /\ pc = "write_stats") =>
        /\ cluster_stats.clusters[0] = cluster_stats.clusters[1]
        /\ cluster_stats.clusters[0] = cluster_stats.clusters[2]
        /\ DOMAIN cluster_stats.clusters = {0, 1, 2}
        /\ cluster_stats.pct.num = 100 * cluster_stats.pct.den
        /\ stats_printout.pass_fail = "pass"
        /\ out_files.dendro_file.dir = "Pass"
        /\ out_files.stats_file.dir = "Pass"

\* C4 witness: the example is about to be written at the default cutoff.
C4_Witness == ExampleRead /\ dendro_cutoff = DefaultCutoff /\ pc = "write_stats"

\* C5 as stated: a label set whose number of scores is not n*(n-1)/2 is
\* rejected before clustering (no tree, no output file of its name), its
\* message is printed before the prompt, and the run goes on to the next set:
\* it does not end in an exception.
C5_Original ==
    (Len(scores_csv) # (Len(labels_csv) * (Len(labels_csv) - 1)) \div 2) =>
        /\ pc \in {"check", "prompt"}
        /\ linkage_matrix = <<>>
        /\ \A f \in written : f.path.name # Prefix(labels_files[i])
        /\ pc = "prompt" => [i |-> i, msg |-> "distances count"] \in printed

\* C6 as stated: an error of one label set other than a fatal input error
\* (linkage failure, length assertion, prefix assertion, statistics write)
\* never ends the run while later label sets are waiting.
C6_Original ==
    (pc = "crashed" /\ error \in {"ValueError", "AssertionError", "OSError"}) =>
        i >= Len(scores_files)

\* C7: when a file list is empty or the two lists differ in length, no label
\* set is processed: the loop never starts, no file is read, no tree is
\* built and nothing is written; the run has exited once the lists are made.
C7_FatalListsProcessNothing ==
    (Len(scores_files) < 1 \/ Len(labels_files) < 1
        \/ Len(scores_files) # Len(labels_files)) =>
        /\ pc \in {"main", "make_input_lists", "exited", "done"}
        /\ pc = "done" => [i |-> 0, msg |-> "usage"] \in printed
        /\ i = 0
        /\ scores_csv = <<>> /\ labels_csv = <<>>
        /\ linkage_matrix = <<>>
        /\ written = {}

\* C7 witness: the run has exited on two non-empty lists of different lengths.
C7_Witness ==
    /\ pc = "exited"
    /\ Len(scores_files) >= 1 /\ Len(labels_files) >= 1
    /\ Len(scores_files) # Len(labels_files)

\* C8: the merge tree build_linkage_matrix returns for a label set of n labels
\* that passed the shape test has n-1 records, none with a negative distance.
C8_TreeSizeAndSign ==
    (pc \in {"stats", "name", "write_stats", "savefig", "crashed"}
        /\ error \notin {"EmptyDataError", "EOFError", "ValueError"}) =>
        /\ Len(linkage_matrix) = Len(labels_array) - 1
        /\ \A k \in DOMAIN linkage_matrix :
              linkage_matrix[k].dist.num >= 0 /\ linkage_matrix[k].dist.den > 0

\* C8 witness: a tree of three merges for four labels has been returned.
C8_Witness == pc = "stats" /\ Len(labels_array) = 4 /\ Len(linkage_matrix) = 3

\* C9: for a score set that is not constant, every normalized score and every
\* distance lies in [0,1]; there is one distance per score, in the scores'
\* order: the largest score has distance 0, the smallest distance 1, and a
\* larger score never has the larger distance.
C9_NormalizedInUnitRange ==
    (distances_array # <<>> /\ \E k \in DOMAIN scores_csv : scores_csv[k] # scores_csv[1]) =>
        LET hi == MaxOf(Range(scores_csv))
            lo == MinOf(Range(scores_csv))
        IN  /\ Len(distances_array) = Len(scores_csv)
            /\ \A k \in DOMAIN distances_array :
                  /\ ~distances_array[k].nan
                  /\ distances_array[k].v >= 0 /\ distances_array[k].v <= Scale
                  /\ Scale - distances_array[k].v >= 0
                  /\ Scale - distances_array[k].v <= Scale
                  /\ scores_csv[k] = hi => distances_array[k].v = 0
                  /\ scores_csv[k] = lo => distances_array[k].v = Scale
            /\ \A j, k \in DOMAIN distances_array :
                  scores_csv[j] <= scores_csv[k] =>
                      distances_array[j].v >= distances_array[k].v

\* C9 witness: a score set with a value strictly between its extremes, whose
\* distance is a rounded fraction.
C9_Witness ==
    /\ pc = "check"
    /\ \E k \in DOMAIN distances_array :
          ~distances_array[k].nan /\ distances_array[k].v = 111111

\* C10 as stated: the distances handed to the linkage step are never
\* not-a-number, also when all scores of the label set are identical.
C10_Original ==
    pc = "build_linkage" => \A k \in DOMAIN distances_array : ~distances_array[k].nan

\* C11 as stated: a label set with an empty score set, or with no label or
\* one label, never ends the run in an exception: it is skipped with a
\* message or handled, and the loop goes on.
C11_Original ==
    (i >= 1 /\ (pc = "crashed" \/ pc = "check")
        /\ (Len(scores_csv) = 0 \/ Len(labels_csv) <= 1)) =>
        pc # "crashed"

\* The leaves of the cluster with identifier id in the tree Z over n leaves.
RECURSIVE Members(_, _, _)
Members(Z, n, id) ==
    IF id < n THEN {id}
    ELSE Members(Z, n, Z[id - n + 1].a) \cup Members(Z, n, Z[id - n + 1].b)

\* The distance at which the leaves x and y first join a common cluster.
FirstJoin(Z, n, x, y) ==
    LET joins == {k \in DOMAIN Z : {x, y} \subseteq Members(Z, n, n + k - 1)}
    IN  Z[MinOf(joins)].dist

\* The partition of the leaves reached from blocks by applying, in the tree's
\* order from record k on, the records whose distance is at most cutoff: such
\* a record unites the blocks of its two clusters, any other record nothing.
RECURSIVE ApplyMerges(_, _, _, _, _)
ApplyMerges(Z, n, cutoff, k, blocks) ==
    IF k > Len(Z) THEN blocks
    ELSE IF RatLeq(Z[k].dist, Rat(cutoff, 1))
         THEN LET ba == CHOOSE b \in blocks : MinOf(Members(Z, n, Z[k].a)) \in b
                  bb == CHOOSE b \in blocks : MinOf(Members(Z, n, Z[k].b)) \in b
              IN  ApplyMerges(Z, n, cutoff, k + 1,
                              (blocks \ {ba, bb}) \cup {ba \cup bb})
         ELSE ApplyMerges(Z, n, cutoff, k + 1, blocks)

\* C12: the cluster assignment of calculate_cluster_stats gives every label
\* exactly one cluster id, and two labels share an id exactly when they first
\* join a common cluster at a distance <= cutoff (the boundary included):
\* the assignment is the partition got from n singletons by applying the
\* merge records with distance <= cutoff and no others.
C12_CutIsMergesUpToCutoff ==
    pc = "name" =>
        LET Z == linkage_matrix
            n == Len(labels_array)
            T == cluster_stats.clusters
            blocks == ApplyMerges(Z, n, dendro_cutoff, 1, {{x} : x \in 0..(n - 1)})
        IN  /\ DOMAIN T = 0..(n - 1)
            /\ \A x, y \in 0..(n - 1) :
                  x < y =>
                    /\ (T[x] = T[y]) <=>
                          RatLeq(FirstJoin(Z, n, x, y), Rat(dendro_cutoff, 1))
                    /\ (T[x] = T[y]) <=> \E b \in blocks : x \in b /\ y \in b

\* C12 witness: a tree with one merge exactly at the cutoff, whose two sides
\* share a cluster id, and a later merge above the cutoff.
C12_Witness ==
    /\ pc = "name"
    /\ \E k, m \in DOMAIN linkage_matrix :
          /\ RatEq(linkage_matrix[k].dist, Rat(dendro_cutoff, 1))
          /\ RatLess(Rat(dendro_cutoff, 1), linkage_matrix[m].dist)
          /\ Cardinality({cluster_stats.clusters[x] :
                x \in Members(linkage_matrix, Len(labels_array),
                              Len(labels_array) + k - 1)}) = 1

\* The sum of the leaf distances d over the cross pairs of the leaf sets A, B.
RECURSIVE CrossSum(_, _, _, _)
CrossSum(d, n, A, B) ==
    IF A = {} THEN 0
    ELSE LET x == CHOOSE x \in A : TRUE
             row == [y \in B |-> d[CondensedIndex(n, Pair(x, y)[1], Pair(x, y)[2])].v]
         IN  SumOf(row, B) + CrossSum(d, n, A \ {x}, B)

\* The mean of the leaf distances over the cross pairs of clusters p and q.
MeanDist(Z, d, n, p, q) ==
    Rat(CrossSum(d, n, Members(Z, n, p), Members(Z, n, q)),
        Cardinality(Members(Z, n, p)) * Cardinality(Members(Z, n, q)))

\* The cluster identifiers that exist when record k is applied: the leaves and
\* the clusters of the earlier records, less those an earlier record merged.
Current(Z, n, k) ==
    (0..(n + k - 2)) \ UNION {{Z[m].a, Z[m].b} : m \in 1..(k - 1)}

\* Record k merges two existing clusters, which are a pair at the smallest
\* mean distance among the existing pairs; its distance is that mean and its
\* count the number of leaves of the two.  (The k-th record, counted from 0,
\* is the cluster n + k: Members and Current read the tree that way.)
MergesNearest(Z, d, n, k) ==
    LET a == Z[k].a
        b == Z[k].b
        cur == Current(Z, n, k)
    IN  /\ a \in cur /\ b \in cur /\ a < b
        /\ RatEq(Z[k].dist, MeanDist(Z, d, n, a, b))
        /\ Z[k].count = Cardinality(Members(Z, n, a)) + Cardinality(Members(Z, n, b))
        /\ Members(Z, n, a) \cap Members(Z, n, b) = {}
        /\ \A p, q \in cur :
              p < q => RatLeq(Z[k].dist, MeanDist(Z, d, n, p, q))

\* Among the existing pairs at the smallest mean distance, record k merges
\* the lowest one: no tied pair has a lower first identifier, or the same
\* first and a lower second.
LowestTied(Z, d, n, k) ==
    \A p, q \in Current(Z, n, k) :
        (p < q /\ RatEq(Z[k].dist, MeanDist(Z, d, n, p, q))) =>
            (Z[k].a < p \/ (Z[k].a = p /\ Z[k].b <= q))

\* C13 as stated: every record merges a pair of existing clusters at the
\* smallest mean distance, ties going to the lowest identifier pair; distance,
\* count and identifiers as recorded.
C13_Original ==
    pc = "stats" =>
        \A k \in DOMAIN linkage_matrix :
            /\ MergesNearest(linkage_matrix, distances_array, Len(labels_array), k)
            /\ LowestTied(linkage_matrix, distances_array, Len(labels_array), k)

\* C13 amended: the same without the tie rule: among tied pairs the record
\* may merge any one (the pair the neighbour chain reaches first).
C13_MergesNearestPair ==
    pc = "stats" =>
        /\ Len(linkage_matrix) = Len(labels_array) - 1
        /\ Members(linkage_matrix, Len(labels_array), 2 * Len(labels_array) - 2)
              = 0..(Len(labels_array) - 1)
        /\ \A k \in DOMAIN linkage_matrix :
              MergesNearest(linkage_matrix, distances_array, Len(labels_array), k)

\* C13 witness: a tree over four labels whose last two merges are of a
\* composite cluster, at mean distances that are no leaf distance.
C13_Witness ==
    /\ pc = "stats"
    /\ Len(labels_array) = 4
    /\ linkage_matrix[2].b >= 4
    /\ linkage_matrix[3].count = 4
    /\ \A k \in {2, 3}, j \in DOMAIN distances_array :
          ~RatEq(linkage_matrix[k].dist, Rat(distances_array[j].v, 1))

\* The sum of the member counts of the clusters 1..k of the table counts.
RECURSIVE CountsUpTo(_, _)
CountsUpTo(counts, k) == IF k = 0 THEN 0 ELSE counts[k] + CountsUpTo(counts, k - 1)

\* C14: the member counts of the flat clusters are all >= 1 and sum to the
\* number n of labels; the percentage is 100 * max(counts) / n, it lies in
\* (0, 100], and it is 100 exactly when all labels are in one cluster.
C14_CountsAndPercentage ==
    pc = "name" =>
        LET counts == cluster_stats.cluster_membership
            pct == cluster_stats.pct
            n == Len(labels_array)
            most == MaxOf({counts[c] : c \in DOMAIN counts})
        IN  /\ DOMAIN counts = 1..Cardinality(DOMAIN counts)
            /\ \A c \in DOMAIN counts : counts[c] >= 1
            /\ CountsUpTo(counts, Cardinality(DOMAIN counts)) = n
            /\ pct.den > 0
            /\ pct.num * n = 100 * most * pct.den
            /\ pct.num > 0
            /\ pct.num <= 100 * pct.den
            /\ (pct.num = 100 * pct.den) <=>
                  (\A x, y \in DOMAIN cluster_stats.clusters :
                      cluster_stats.clusters[x] = cluster_stats.clusters[y])

\* C14 witness: four labels in three clusters of 2, 1 and 1 members: 50 percent.
C14_Witness ==
    /\ pc = "name"
    /\ Len(labels_array) = 4
    /\ Cardinality(DOMAIN cluster_stats.cluster_membership) = 3
    /\ cluster_stats.pct.num = 50 * cluster_stats.pct.den

====
